---- MODULE Spec2Model ----
(***************************************************************************)
(* Model of ExceptionHandler (register / wrap) and of the error classes    *)
(* it dispatches on.  A class is an identity with a name and a prototype   *)
(* chain; the registry is a Map keyed by the class NAME.                   *)
(***************************************************************************)
EXTENDS Naturals, FiniteSets, Sequences, TLC

VARIABLES strictMode, exceptionResolvers, pending, last, lastReg, refused

vars == <<strictMode, exceptionResolvers, pending, last, lastReg, refused>>

(* ----------------------------- bounds --------------------------------- *)

\* number of wrap calls that may be awaiting their operation at once
MaxPending == 2

(* ------------------------- classes and names --------------------------- *)

\* Error classes that are registered and thrown, by identity.  Two of
\* them are both called "CustomError": the plain one of TestErrors.js and
\* the HandledException subclass of HandledException.test.js.
\* HandledException is their abstract base.
Classes ==
  {"TestErrors.CustomError", "Handled.CustomError", "CustomHandledError",
   "HandledException"}

\* HandledException subclasses that are only ever constructed: without a
\* getHandler of its own, with a getHandler that returns null, with a
\* getHandler property that is no function, and a subclass of
\* CustomHandledError that inherits its getHandler
DeclaredClasses ==
  Classes \cup {"NoHandlerError", "InvalidHandlerError",
                "NotCallableHandlerError", "InheritingHandlerError"}

\* exceptionType.name / error.constructor.name
ClassName(c) ==
  CASE c = "TestErrors.CustomError" -> "CustomError"
    [] c = "Handled.CustomError" -> "CustomError"
    [] OTHER -> c

Names == {ClassName(c) : c \in Classes}

\* the class named in the extends clause
Parent(c) ==
  CASE c \in {"TestErrors.CustomError", "HandledException"} -> "Error"
    [] c = "InheritingHandlerError" -> "CustomHandledError"
    [] OTHER -> "HandledException"

\* base is on the prototype chain above c
RECURSIVE Inherits(_, _)
Inherits(c, base) ==
  /\ c # "Error"
  /\ (Parent(c) = base \/ Inherits(Parent(c), base))

\* exceptionType.prototype instanceof HandledException
ExtendsHandledException(c) == Inherits(c, "HandledException")

\* the getHandler property the class body itself defines: a method, a value
\* that is no function, or none
OwnGetHandler(c) ==
  CASE c \in {"Handled.CustomError", "CustomHandledError", "InvalidHandlerError",
              "HandledException"} -> "method"
    [] c = "NotCallableHandlerError" -> "notFunction"
    [] OTHER -> "none"

\* the class whose getHandler property this.getHandler finds on the
\* prototype chain of an instance of c
RECURSIVE GetHandlerOwner(_)
GetHandlerOwner(c) ==
  IF c = "Error" \/ OwnGetHandler(c) # "none" THEN c
  ELSE GetHandlerOwner(Parent(c))

\* what getHandler() returns for an instance of c; the abstract method of
\* HandledException returns nothing, it throws
GetHandler(c) ==
  CASE GetHandlerOwner(c) = "Handled.CustomError" -> "builtinObject"
    [] GetHandlerOwner(c) = "CustomHandledError" -> "builtinFunction"
    [] GetHandlerOwner(c) = "InvalidHandlerError" -> "null"
    [] OTHER -> "undefined"

(* ------------------------------ values --------------------------------- *)

\* the values register is given as resolver: a function, an object, null
Resolvers == {"resolverFunction", "resolverObject", "null"}

\* typeof v === 'function'
IsFunction(v) == v \in {"resolverFunction", "builtinFunction"}

\* JavaScript truthiness of a value
Truthy(v) == v \notin {"null", "undefined"}

Messages == {"Test error"}

\* the Error a constructor throws
ConstructionError(text) == [cls |-> "Error", message |-> text]

\* HandledException's constructor without the check of getHandler()'s value
NewHandlerNotValidated(c, message) ==
  IF c # "HandledException" /\ ~ExtendsHandledException(c)
  THEN [threw |-> FALSE, value |-> [cls |-> c, message |-> message],
        name |-> ClassName(c)]
  ELSE IF c = "HandledException"
  THEN [threw |-> TRUE, name |-> "Error",
        value |-> ConstructionError("HandledException is an abstract class")]
  ELSE IF OwnGetHandler(GetHandlerOwner(c)) # "method"
  THEN [threw |-> TRUE, name |-> "Error",
        value |-> ConstructionError("must implement a getHandler method")]
  ELSE IF GetHandlerOwner(c) = "HandledException"
  THEN [threw |-> TRUE, name |-> "Error",
        value |-> ConstructionError("must implement the getHandler method")]
  ELSE [threw |-> FALSE, value |-> [cls |-> c, message |-> message],
        name |-> ClassName(c)]

\* new c(message): whether the constructor threw, the value constructed
\* or thrown, and the name property of the value.  A class that does not
\* extend HandledException just sets its message and name.
New(c, message) ==
  IF c # "HandledException" /\ ~ExtendsHandledException(c)
  THEN [threw |-> FALSE, value |-> [cls |-> c, message |-> message],
        name |-> ClassName(c)]
  ELSE IF c = "HandledException"
  THEN [threw |-> TRUE, name |-> "Error",
        value |-> ConstructionError("HandledException is an abstract class")]
  ELSE IF OwnGetHandler(GetHandlerOwner(c)) # "method"
  THEN [threw |-> TRUE, name |-> "Error",
        value |-> ConstructionError("must implement a getHandler method")]
  ELSE IF GetHandlerOwner(c) = "HandledException"
  THEN [threw |-> TRUE, name |-> "Error",
        value |-> ConstructionError("must implement the getHandler method")]
  ELSE IF ~Truthy(GetHandler(c))
  THEN [threw |-> TRUE, name |-> "Error",
        value |-> ConstructionError("getHandler must return a handler")]
  ELSE [threw |-> FALSE, value |-> [cls |-> c, message |-> message],
        name |-> ClassName(c)]

\* the error objects operations throw: the instances of the classes that
\* can be constructed
ErrorObjects ==
  {New(c, m).value : c \in {k \in Classes : ~New(k, "").threw}, m \in Messages}

\* throw null / Promise.reject(): a thrown value that is no object
NullValue == [cls |-> "null", message |-> ""]

\* the TypeError raised by reading a property of null
TypeErrorValue == [cls |-> "TypeError", message |-> "Cannot read properties of null"]

NoError == [cls |-> "", message |-> ""]

ThrownValues == ErrorObjects \cup {NullValue}

\* error instanceof HandledException
IsHandledException(e) == e \in ErrorObjects /\ ExtendsHandledException(e.cls)

\* the value v itself
Static(v) == [fn |-> "", val |-> v, arg |-> NoError]

\* the value the pure function f returns for the error e
Call(f, e) == [fn |-> f, val |-> "", arg |-> e]

NoValue == Static("")

\* typeof r === 'function' ? r(error) : r
Resolve(r, e) == IF IsFunction(r) THEN Call(r, e) ELSE Static(r)

Fulfilled(v) == [status |-> "fulfilled", value |-> v, reason |-> NoError]

Rejected(e) == [status |-> "rejected", value |-> NoValue, reason |-> e]

NoOutcome == [status |-> "", value |-> NoValue, reason |-> NoError]

(* ------------------------------- Map ----------------------------------- *)

EmptyMap == [n \in {} |-> "undefined"]

MapHas(m, k) == k \in DOMAIN m

MapGet(m, k) == IF k \in DOMAIN m THEN m[k] ELSE "undefined"

\* Map.set that forgets the other entries
MapSetAlone(m, k, v) == [x \in {k} |-> v]

MapSet(m, k, v) == [x \in (DOMAIN m) \cup {k} |-> IF x = k THEN v ELSE m[x]]

(* --------------------------- ExceptionHandler -------------------------- *)

\* register(exceptionType, resolver) on a handler whose registry is m:
\* the registry afterwards, the warning logged, the value returned
Register(m, strict, exceptionType, resolver) ==
  LET name == ClassName(exceptionType) IN
  IF strict /\ ~ExtendsHandledException(exceptionType)
  THEN [resolvers |-> m, warn |-> "strict", ret |-> "this"]
  ELSE [resolvers |-> MapSet(m, name, resolver),
        warn |-> IF MapHas(m, name) THEN "duplicate" ELSE "none",
        ret |-> "this"]

\* CatchBlock with the built-in handler returned as it is, never called
CatchBlockHandlerNotCalled(m, error) ==
  IF error = NullValue
  THEN [outcome |-> Rejected(TypeErrorValue), trace |-> FALSE]
  ELSE LET resolver == MapGet(m, ClassName(error.cls)) IN
       IF Truthy(resolver)
       THEN [outcome |-> Fulfilled(Resolve(resolver, error)),
             trace |-> IsHandledException(error)]
       ELSE IF IsHandledException(error)
            THEN [outcome |-> Fulfilled(Static(GetHandler(error.cls))),
                  trace |-> FALSE]
            ELSE [outcome |-> Rejected(error), trace |-> FALSE]

\* CatchBlock with a lookup that falls back to the name of the error's
\* parent class when the error's own name has no entry
CatchBlockParentLookup(m, error) ==
  IF error = NullValue
  THEN [outcome |-> Rejected(TypeErrorValue), trace |-> FALSE]
  ELSE LET own == MapGet(m, ClassName(error.cls))
           resolver == IF MapHas(m, ClassName(error.cls)) THEN own
                       ELSE MapGet(m, Parent(error.cls))
       IN
       IF Truthy(resolver)
       THEN [outcome |-> Fulfilled(Resolve(resolver, error)),
             trace |-> IsHandledException(error)]
       ELSE IF IsHandledException(error)
            THEN [outcome |-> Fulfilled(Resolve(GetHandler(error.cls), error)),
                  trace |-> FALSE]
            ELSE [outcome |-> Rejected(error), trace |-> FALSE]

\* the catch block of wrap, entered with the caught value: how wrap's
\* promise settles and whether console.trace was called
CatchBlock(m, error) ==
  IF error = NullValue
  THEN [outcome |-> Rejected(TypeErrorValue), trace |-> FALSE]
  ELSE LET resolver == MapGet(m, ClassName(error.cls)) IN
       IF Truthy(resolver)
       THEN [outcome |-> Fulfilled(Resolve(resolver, error)),
             trace |-> IsHandledException(error)]
       ELSE IF IsHandledException(error)
            THEN [outcome |-> Fulfilled(Resolve(GetHandler(error.cls), error)),
                  trace |-> FALSE]
            ELSE [outcome |-> Rejected(error), trace |-> FALSE]

(* ------------------------- wrapped operations -------------------------- *)

\* what the function given to wrap does: throw synchronously, return a
\* promise that rejects, return a value, return a promise that fulfills
Throwers == [how : {"throw", "reject"}, err : ThrownValues, val : {""}]

Returners ==
  {[how |-> "return", err |-> NoError, val |-> "value"],
   [how |-> "resolve", err |-> NoError, val |-> "promised value"]}

Operations == Throwers \cup Returners

\* the operations wrap awaits: all but the ones that throw synchronously
Awaited == {fn \in Operations : fn.how # "throw"}

\* wrap's try block without the return: the awaited value is dropped
TryBlockValueDropped(fn) == [outcome |-> Fulfilled(NoValue), trace |-> FALSE]

\* the try block of wrap when the awaited operation does not fail: wrap's
\* promise fulfills with the operation's value and nothing is logged
TryBlock(fn) == [outcome |-> Fulfilled(Static(fn.val)), trace |-> FALSE]

\* how many wrap calls are suspended at the await: the sum of the counts
\* n[fn] over the operations of S
RECURSIVE Suspended(_, _)
Suspended(n, S) ==
  IF S = {} THEN 0
  ELSE LET fn == CHOOSE x \in S : TRUE IN n[fn] + Suspended(n, S \ {fn})

(* --------------------------- observations ------------------------------ *)

NoEvent ==
  [op |-> "new", cls |-> "", resolver |-> "", warn |-> "", ret |-> "",
   threw |-> FALSE, how |-> "", thrown |-> NoError,
   failed |-> FALSE, outcome |-> NoOutcome, trace |-> FALSE,
   name |-> "", message |-> "", returned |-> "", late |-> FALSE]

\* a register call: its arguments, what it logged and returned
RegisterEvent(cls, r, res) ==
  [NoEvent EXCEPT !.op = "register", !.cls = cls, !.resolver = r,
                  !.warn = res.warn, !.ret = res.ret]

WrapEvent(fn, res) ==
  [NoEvent EXCEPT !.op = "wrap", !.how = fn.how, !.thrown = fn.err,
                  !.returned = fn.val,
                  !.failed = fn.how \in {"throw", "reject"},
                  !.outcome = res.outcome, !.trace = res.trace]

\* new cls(message): the arguments, whether it threw, the value and its name
NewEvent(cls, message, res) ==
  [NoEvent EXCEPT !.op = "construct", !.cls = cls, !.message = message,
                  !.threw = res.threw, !.thrown = res.value, !.name = res.name]

\* the resolver handed to the latest register call for the name that
\* strict mode did not refuse
Admit(reg, cls, r, res) ==
  IF res.warn = "strict" THEN reg ELSE MapSet(reg, ClassName(cls), r)

\* the classes with instances whose registration strict mode has refused
Refuse(set, cls, res) ==
  IF res.warn = "strict" /\ ~New(cls, "").threw THEN set \cup {cls} ELSE set

(* ------------------------------ actions -------------------------------- *)

\* new ExceptionHandler(strictMode)
Init ==
  /\ strictMode \in BOOLEAN
  /\ exceptionResolvers = EmptyMap
  /\ pending = [fn \in Awaited |-> 0]
  /\ last = NoEvent
  /\ lastReg = EmptyMap
  /\ refused = {}

\* new cls(message)
NewCall(cls, message) ==
  /\ last' = NewEvent(cls, message, New(cls, message))
  /\ UNCHANGED <<strictMode, exceptionResolvers, pending, lastReg, refused>>

\* handler.register(cls, r)
RegisterCall(cls, r) ==
  LET res == Register(exceptionResolvers, strictMode, cls, r) IN
  /\ exceptionResolvers' = res.resolvers
  /\ last' = RegisterEvent(cls, r, res)
  /\ lastReg' = Admit(lastReg, cls, r, res)
  /\ refused' = Refuse(refused, cls, res)
  /\ UNCHANGED <<strictMode, pending>>

\* handler.register(a, x).register(b, y): the second call is made on the
\* value the first one returned; on anything but the handler it throws a
\* TypeError
ChainedCall(b, y) ==
  /\ last.op \in {"register", "chain"}
  /\ ~last.threw
  /\ LET res == Register(exceptionResolvers, strictMode, b, y)
         call == [RegisterEvent(b, y, res) EXCEPT !.op = "chain"]
     IN
     IF last.ret = "this"
     THEN /\ exceptionResolvers' = res.resolvers
          /\ last' = call
          /\ lastReg' = Admit(lastReg, b, y, res)
          /\ refused' = Refuse(refused, b, res)
          /\ UNCHANGED <<strictMode, pending>>
     ELSE /\ last' = [call EXCEPT !.warn = "", !.ret = "", !.threw = TRUE]
          /\ UNCHANGED <<strictMode, exceptionResolvers, pending, lastReg, refused>>

\* handler.wrap(fn) where fn throws synchronously: the catch block runs
\* within the call
WrapThrow(fn) ==
  /\ fn.how = "throw"
  /\ last' = WrapEvent(fn, CatchBlock(exceptionResolvers, fn.err))
  /\ UNCHANGED <<strictMode, exceptionResolvers, pending, lastReg, refused>>

\* handler.wrap(fn) where fn returns: wrap suspends at the await
WrapAwait(fn) ==
  /\ Suspended(pending, Awaited) < MaxPending
  /\ pending' = [pending EXCEPT ![fn] = @ + 1]
  /\ UNCHANGED <<strictMode, exceptionResolvers, last, lastReg, refused>>

\* the awaited operation fulfilled: wrap returns its value
WrapReturn(fn) ==
  /\ fn.how \in {"return", "resolve"}
  /\ pending[fn] > 0
  /\ last' = WrapEvent(fn, TryBlock(fn))
  /\ pending' = [pending EXCEPT ![fn] = @ - 1]
  /\ UNCHANGED <<strictMode, exceptionResolvers, lastReg, refused>>

\* the call before this step was a register that installed the first entry
\* under the name of the error fn rejects with: a wrap of fn that is
\* suspended now was called when the registry had no entry under that name
InstalledWhileAwaiting(fn) ==
  /\ last.op \in {"register", "chain"}
  /\ last.warn = "none"
  /\ ClassName(last.cls) = ClassName(fn.err.cls)

\* WrapCatch that deletes the registry entry it has looked up
WrapCatchEntryConsumed(fn) ==
  LET name == ClassName(fn.err.cls) IN
  /\ fn.how = "reject"
  /\ pending[fn] > 0
  /\ last' = [WrapEvent(fn, CatchBlock(exceptionResolvers, fn.err))
                EXCEPT !.late = InstalledWhileAwaiting(fn)]
  /\ pending' = [pending EXCEPT ![fn] = @ - 1]
  /\ exceptionResolvers' =
       [n \in (DOMAIN exceptionResolvers) \ {name} |-> exceptionResolvers[n]]
  /\ UNCHANGED <<strictMode, lastReg, refused>>

\* WrapCatch with the lookup made when wrap was called: an entry installed
\* while the call was awaiting is not seen
WrapCatchCallTimeLookup(fn) ==
  LET name == ClassName(fn.err.cls)
      atCall == IF InstalledWhileAwaiting(fn)
                THEN [n \in (DOMAIN exceptionResolvers) \ {name} |->
                        exceptionResolvers[n]]
                ELSE exceptionResolvers
  IN
  /\ fn.how = "reject"
  /\ pending[fn] > 0
  /\ last' = [WrapEvent(fn, CatchBlock(atCall, fn.err))
                EXCEPT !.late = InstalledWhileAwaiting(fn)]
  /\ pending' = [pending EXCEPT ![fn] = @ - 1]
  /\ UNCHANGED <<strictMode, exceptionResolvers, lastReg, refused>>

\* the awaited operation rejected: the catch block runs, on the registry
\* as it is now
WrapCatch(fn) ==
  /\ fn.how = "reject"
  /\ pending[fn] > 0
  /\ last' = [WrapEvent(fn, CatchBlock(exceptionResolvers, fn.err))
                EXCEPT !.late = InstalledWhileAwaiting(fn)]
  /\ pending' = [pending EXCEPT ![fn] = @ - 1]
  /\ UNCHANGED <<strictMode, exceptionResolvers, lastReg, refused>>

Next ==
  \/ \E cls \in DeclaredClasses, m \in Messages : NewCall(cls, m)
  \/ \E cls \in Classes, r \in Resolvers : RegisterCall(cls, r)
  \/ \E b \in Classes, y \in Resolvers : ChainedCall(b, y)
  \/ \E fn \in Operations : WrapThrow(fn)
  \/ \E fn \in Awaited : WrapAwait(fn)
  \/ \E fn \in Awaited : WrapReturn(fn)
  \/ \E fn \in Awaited : WrapCatch(fn)

Spec == Init /\ [][Next]_vars

(* ------------------------------ claims --------------------------------- *)

\* wrap has just settled after its operation failed
WrapFailed == last.op = "wrap" /\ last.failed

\* the caught value is an error object: it has a class, hence a kind name
CaughtError == WrapFailed /\ last.thrown \in ErrorObjects

\* the kind name of the caught error
CaughtName == ClassName(last.thrown.cls)

\* a step in which register is called, directly or chained
RegisterStep == last'.op \in {"register", "chain"} /\ pending' = pending

\* a wrap of an operation throwing e, on the registry m, fulfills with
\* what the resolver r gives for e
ResolvesWith(m, e, r) == CatchBlock(m, e).outcome = Fulfilled(Resolve(r, e))

\* on the registry m, every instance of the class is resolved by r
Resolvable(m, cls, r) ==
  \A e \in ErrorObjects : e.cls = cls => ResolvesWith(m, e, r)

\* C1: whenever the caught error's kind name has a resolver R registered
\* (the resolver of the latest admitted register call for that name, a
\* function or any static value), wrap fulfills with R(e) when R is
\* callable and with R itself otherwise.
C1_RegisteredResolverUsed ==
  (CaughtError /\ MapHas(lastReg, CaughtName))
    => last.outcome = Fulfilled(Resolve(lastReg[CaughtName], last.thrown))

\* C2: when the caught error is an instance of a HandledException subclass
\* and a manual resolver R is registered under its name, the result comes
\* from R, not from the built-in handler, and the precedence trace is
\* emitted; the trace is emitted in no other case.
C2_ManualResolverPrecedence ==
  /\ (CaughtError /\ IsHandledException(last.thrown) /\ MapHas(lastReg, CaughtName))
       => /\ last.outcome = Fulfilled(Resolve(lastReg[CaughtName], last.thrown))
          /\ last.trace
  /\ (last.op = "wrap" /\ last.trace)
       => /\ CaughtError
          /\ IsHandledException(last.thrown)
          /\ MapHas(lastReg, CaughtName)

\* C3: on a strict or non-strict handler with no entry under the name of
\* the HandledException subclass K, wrap of an operation that throws an
\* instance e of K fulfills with H(e) when K's handler H is callable and
\* with H itself when H is a static value.
C3_BuiltinHandlerUsed ==
  (CaughtError /\ IsHandledException(last.thrown)
     /\ ~MapHas(exceptionResolvers, CaughtName))
    => last.outcome =
         Fulfilled(IF IsFunction(GetHandler(last.thrown.cls))
                   THEN Call(GetHandler(last.thrown.cls), last.thrown)
                   ELSE Static(GetHandler(last.thrown.cls)))

\* a strict handler with an empty registry resolved a CustomHandledError,
\* rejected by its promise, by calling the class's own handler function
C3_Witness ==
  /\ CaughtError
  /\ strictMode
  /\ last.how = "reject"
  /\ last.thrown.cls = "CustomHandledError"
  /\ exceptionResolvers = EmptyMap
  /\ last.outcome = Fulfilled(Call("builtinFunction", last.thrown))

\* C4: when the caught value has no resolver registered under its kind
\* name and does not conform to HandledException, wrap rejects with that
\* very value and with no other error in its place.
C4_UnhandledRethrown ==
  (WrapFailed /\ ~IsHandledException(last.thrown)
     /\ ~(CaughtError /\ MapHas(lastReg, CaughtName)))
    => last.outcome = Rejected(last.thrown)

\* C5: on a strict handler, register of a class that does not extend
\* HandledException leaves the registry as it was, logs the strict-mode
\* warning and returns the handler, and a later wrap of an operation
\* throwing an instance of a class so refused rethrows that instance.
C5_StrictRefusalIsNoOp ==
  [][/\ (RegisterStep /\ strictMode /\ ~ExtendsHandledException(last'.cls))
          => /\ exceptionResolvers' = exceptionResolvers
             /\ last'.warn = "strict"
             /\ last'.ret = "this"
     /\ ((CaughtError /\ strictMode /\ last.thrown.cls \in refused)
          => last.outcome = Rejected(last.thrown))']_vars

\* C6: on a strict handler, wrap fulfills after a failure only if the
\* caught error is an instance of a HandledException subclass, and every
\* caught error that is not is rethrown.
C6_StrictHandlesOnlyHandledExceptions ==
  (strictMode /\ CaughtError)
    => /\ last.outcome.status = "fulfilled" => IsHandledException(last.thrown)
       /\ ~IsHandledException(last.thrown) => last.outcome = Rejected(last.thrown)

\* C7: a register call for a name that already has a resolver logs a
\* warning, throws nothing and leaves the registry as it was: the first
\* registration wins.
C7_FirstRegistrationWins ==
  [][(RegisterStep /\ MapHas(exceptionResolvers, ClassName(last'.cls)))
       => /\ ~last'.threw
          /\ last'.warn \in {"strict", "duplicate"}
          /\ exceptionResolvers' = exceptionResolvers]_vars

\* C8: a register call that strict mode admits, for a name that already
\* has a resolver, logs the duplicate warning, throws nothing and replaces
\* the entry, so that a wrap of an operation throwing an instance of the
\* class then resolves with the new resolver.
C8_DuplicateWarnsAndReplaces ==
  [][(RegisterStep /\ last'.warn # "strict"
        /\ MapHas(exceptionResolvers, ClassName(last'.cls)))
       => /\ ~last'.threw
          /\ last'.warn = "duplicate"
          /\ MapGet(exceptionResolvers', ClassName(last'.cls)) = last'.resolver
          /\ Resolvable(exceptionResolvers', last'.cls, last'.resolver)]_vars

\* C9: every register call returns the handler it was called on, and after
\* handler.register(A, x).register(B, y) with classes A and B of different
\* names and both calls admitted, A is resolved with x and B with y.
C9_RegisterReturnsThisAndChains ==
  [][/\ RegisterStep => (~last'.threw /\ last'.ret = "this")
     /\ (RegisterStep /\ last'.op = "chain"
           /\ ClassName(last.cls) # ClassName(last'.cls)
           /\ last.warn # "strict" /\ last'.warn # "strict")
          => /\ Resolvable(exceptionResolvers', last.cls, last.resolver)
             /\ Resolvable(exceptionResolvers', last'.cls, last'.resolver)]_vars

\* C10: whenever the caught error has a resolver registered under its kind
\* name or conforms to HandledException, wrap's promise is fulfilled, not
\* rejected.
C10_HandledNeverPropagates ==
  (CaughtError /\ (MapHas(lastReg, CaughtName) \/ IsHandledException(last.thrown)))
    => last.outcome.status = "fulfilled"

\* a HandledException-based class has just been constructed with new
Constructed ==
  /\ last.op = "construct"
  /\ (last.cls = "HandledException" \/ ExtendsHandledException(last.cls))

\* the construction yielded an instance of the class with the given
\* message and the class's name
YieldedInstance ==
  /\ last.thrown = [cls |-> last.cls, message |-> last.message]
  /\ last.name = ClassName(last.cls)

\* C11 as stated: construction throws exactly when the class is
\* HandledException itself, or the class does not define a getHandler of
\* its own, or getHandler() returns a falsy value; otherwise it yields an
\* error with the given message and the class's name.
C11_FailsExactlyWhenAsStated ==
  Constructed =>
    /\ last.threw <=> \/ last.cls = "HandledException"
                      \/ OwnGetHandler(last.cls) = "none"
                      \/ ~Truthy(GetHandler(last.cls))
    /\ ~last.threw => YieldedInstance

\* C11 amended: construction throws exactly when the class is
\* HandledException itself, or the getHandler it finds on its prototype
\* chain is the abstract one of HandledException or is no function, or
\* getHandler() returns a falsy value; otherwise it yields an error with
\* the given message and the class's name.
C11_ConstructionFailsExactlyWhen ==
  Constructed =>
    /\ last.threw <=> \/ last.cls = "HandledException"
                      \/ GetHandlerOwner(last.cls) = "HandledException"
                      \/ OwnGetHandler(GetHandlerOwner(last.cls)) = "notFunction"
                      \/ ~Truthy(GetHandler(last.cls))
    /\ ~last.threw => YieldedInstance

\* the construction of an InvalidHandlerError, whose getHandler returns
\* null, threw an Error
C11_Witness ==
  /\ Constructed
  /\ last.cls = "InvalidHandlerError"
  /\ last.threw
  /\ last.thrown.cls = "Error"

\* C12: when the wrapped operation does not fail, wrap fulfills with
\* exactly the value the operation returned or its promise fulfilled with,
\* and no diagnostic is emitted, whatever the registry contains.
C12_SuccessPassesValueThrough ==
  (last.op = "wrap" /\ ~last.failed) =>
    /\ last.outcome = Fulfilled(Static(last.returned))
    /\ ~last.trace

\* an operation's promise fulfilled while the registry held a resolver
C12_Witness ==
  /\ last.op = "wrap"
  /\ last.how = "resolve"
  /\ last.outcome.status = "fulfilled"
  /\ exceptionResolvers # EmptyMap

\* C13: matching is by kind name only: what wrap makes of a caught error
\* comes from the registry entry under the name of the error's own class,
\* from the error's built-in handler, or is the error rethrown; an entry
\* under another name, an ancestor's or a sibling's, is never used.
C13_MatchByOwnNameOnly ==
  CaughtError =>
    \/ /\ MapHas(exceptionResolvers, CaughtName)
       /\ last.outcome =
            Fulfilled(Resolve(MapGet(exceptionResolvers, CaughtName), last.thrown))
    \/ /\ IsHandledException(last.thrown)
       /\ last.outcome =
            Fulfilled(Resolve(GetHandler(last.thrown.cls), last.thrown))
    \/ last.outcome = Rejected(last.thrown)

\* a CustomHandledError was caught while only its parent class,
\* HandledException, had a resolver: the built-in handler answered
C13_Witness ==
  /\ CaughtError
  /\ last.thrown.cls = "CustomHandledError"
  /\ ~MapHas(exceptionResolvers, "CustomHandledError")
  /\ Truthy(MapGet(exceptionResolvers, "HandledException"))
  /\ last.outcome = Fulfilled(Call("builtinFunction", last.thrown))

\* a step of a wrap call: the call suspends at the await, or it settles
WrapStep == pending' # pending \/ last'.op = "wrap"

\* C14: wrap never modifies handler state: over every step of a wrap
\* call, whatever its outcome and however many other wrap calls are
\* pending, the registry and the strictMode flag stay as they were.
C14_WrapLeavesStateAlone ==
  [][WrapStep => /\ exceptionResolvers' = exceptionResolvers
                 /\ strictMode' = strictMode]_vars

\* a wrap call settled by a registered resolver while another wrap call
\* was still pending
C14_Witness ==
  /\ CaughtError
  /\ Suspended(pending, Awaited) > 0
  /\ Truthy(MapGet(exceptionResolvers, CaughtName))
  /\ last.outcome.status = "fulfilled"

C16_RegistrationsAccumulate ==
  /\ exceptionResolvers = EmptyMap
  /\ [][/\ DOMAIN exceptionResolvers \subseteq DOMAIN exceptionResolvers'
        /\ DOMAIN exceptionResolvers' \subseteq Names
        /\ exceptionResolvers' \in [DOMAIN exceptionResolvers' -> Resolvers]]_vars

\* all three names are registered, and register and wrap calls followed
\* the first registration
C16_Witness ==
  /\ DOMAIN exceptionResolvers = Names
  /\ last.op = "wrap"
  /\ last.outcome.status = "rejected"

====
